---- MODULE Spec2Model ----
(***************************************************************************)
(* FoodONtracks: the role-permission matrix and its lookup helpers         *)
(* (src/config/roles.ts), the usePermissions hook, the JWT route-gating    *)
(* middleware, and the AuthProvider / UIProvider React contexts with their *)
(* localStorage persistence.                                               *)
(*                                                                         *)
(* Four specifications share the variables:                                *)
(*   SpecRbac        calls of the roles.ts helpers on drawn inputs         *)
(*   SpecMiddleware  one request at a time through middleware()            *)
(*   Spec            AuthProvider: login / logout / updateUser / refresh   *)
(*   SpecUI          UIProvider: theme, sidebar, language, notifications   *)
(***************************************************************************)
EXTENDS Integers, Sequences, FiniteSets, TLC

VARIABLES
    rbacCall,       \* the roles.ts helper being called and its arguments
    rbacResult,     \* what that call returned, or that it threw
    rbacTest,       \* scripts/test_rbac.ts: position and counters of its summary loop
    req,            \* the request handed to middleware()
    res,            \* the response middleware() returned for req
    user,           \* AuthProvider: the `user` state (latest setUser value)
    renderedUser,   \* AuthProvider: the `user` the current render's callbacks close over
    authStore,      \* localStorage entry "authUser"
    clock,          \* Date.now()
    authOp,         \* the AuthProvider operation that ran last
    theme,          \* UIProvider state
    sidebarOpen,
    language,
    notifications,
    uiStore,        \* localStorage entries "theme", "language", "notifications"
    rootDark,       \* document.documentElement.classList contains "dark"
    uiBatch,        \* UIProvider: updates scheduled and not yet rendered
    uiOp            \* the UIProvider operation that ran last

rbacVars == <<rbacCall, rbacResult, rbacTest>>
mwVars   == <<req, res>>
authVars == <<user, renderedUser, authStore, clock, authOp>>
uiVars   == <<theme, sidebarOpen, language, notifications, uiStore, rootDark,
              uiBatch, uiOp>>
vars     == <<rbacCall, rbacResult, rbacTest, req, res, user, renderedUser, authStore,
              clock, authOp, theme, sidebarOpen, language, notifications,
              uiStore, rootDark, uiBatch, uiOp>>

-----------------------------------------------------------------------------
(* Bounds *)

MaxPermList == 2    \* longest permission list passed to hasAny/hasAllPermissions
MaxClock    == 2    \* Date.now() values drawn by login

-----------------------------------------------------------------------------
(* JavaScript values that a property lookup on the matrix can produce *)

JsUndefined       == [t |-> "undefined"]
JsNull            == [t |-> "null"]
JsBool(b)         == [t |-> "boolean", b |-> b]
JsNumber(n)       == [t |-> "number", num |-> n]
JsString(s)       == [t |-> "string", str |-> s]
JsArray(xs)       == [t |-> "array", items |-> xs]
JsObject(own)     == [t |-> "object", own |-> own]
JsFunction(n, a)  == [t |-> "function", name |-> n, arity |-> a]
JsObjectPrototype == [t |-> "objectPrototype"]

\* the global Object constructor: Object.name, Object.length
ObjectConstructor == JsFunction("Object", 1)

\* outcome of a call: a returned value or a thrown TypeError
Returns(v)  == [threw |-> FALSE, value |-> v]
Throws      == [threw |-> TRUE, value |-> JsUndefined]
ReturnsTrue  == Returns(JsBool(TRUE))
ReturnsFalse == Returns(JsBool(FALSE))

\* ToBoolean(v) is false for undefined, null, 0, "" and false
Truthy(v) ==
    CASE v.t = "undefined" -> FALSE
      [] v.t = "null"      -> FALSE
      [] v.t = "boolean"   -> v.b
      [] v.t = "number"    -> v.num # 0
      [] v.t = "string"    -> v.str # ""
      [] OTHER             -> TRUE

\* properties every object inherits from Object.prototype
ObjectPrototypeGet(key) ==
    CASE key = "constructor" -> ObjectConstructor
      [] key = "toString"    -> JsFunction("toString", 0)
      [] OTHER               -> JsUndefined

\* properties of a function object
FunctionGet(f, key) ==
    CASE key = "name"      -> JsString(f.name)
      [] key = "length"    -> JsNumber(f.arity)
      [] key = "prototype" -> IF f.name = "Object" THEN JsObjectPrototype ELSE JsUndefined
      [] key = "__proto__" -> JsFunction("", 0)
      [] OTHER             -> ObjectPrototypeGet(key)

\* v[key]: own property first, then the prototype chain
Get(v, key) ==
    CASE v.t = "object" ->
            IF key \in DOMAIN v.own THEN v.own[key]
            ELSE IF key = "__proto__" THEN JsObjectPrototype
            ELSE ObjectPrototypeGet(key)
      [] v.t = "objectPrototype" ->
            IF key = "__proto__" THEN JsNull ELSE ObjectPrototypeGet(key)
      [] v.t = "function" -> FunctionGet(v, key)
      [] v.t = "array" ->
            IF key = "length" THEN JsNumber(Len(v.items)) ELSE ObjectPrototypeGet(key)
      [] v.t = "string" ->
            IF key = "length" THEN JsNumber(Len(v.str)) ELSE ObjectPrototypeGet(key)
      [] OTHER -> JsUndefined

\* v?.[key]
OptGet(v, key) == IF v.t \in {"undefined", "null"} THEN JsUndefined ELSE Get(v, key)

-----------------------------------------------------------------------------
(* src/config/roles.ts *)

Permission == {"create", "read", "update", "delete", "manage"}

UserRole == {"ADMIN", "RESTAURANT_OWNER", "CUSTOMER"}

Resource == {"users", "restaurants", "menuItems", "orders", "reviews",
             "addresses", "deliveryPersons", "transactions"}

AllFive == <<"create", "read", "update", "delete", "manage">>
Crud    == <<"create", "read", "update", "delete">>

\* variant: the CUSTOMER row also lists delete on users
rolePermissionsTableLoose ==
    [ADMIN |-> [s \in Resource |-> AllFive],
     RESTAURANT_OWNER |->
        [users           |-> <<"read">>,
         restaurants     |-> <<"read", "update">>,
         menuItems       |-> Crud,
         orders          |-> <<"read", "update">>,
         reviews         |-> <<"read">>,
         addresses       |-> <<"read">>,
         deliveryPersons |-> <<"read", "update">>,
         transactions    |-> <<"read">>],
     CUSTOMER |->
        [users           |-> <<"read", "update", "delete">>,
         restaurants     |-> <<"read">>,
         menuItems       |-> <<"read">>,
         orders          |-> <<"create", "read", "update">>,
         reviews         |-> Crud,
         addresses       |-> Crud,
         deliveryPersons |-> <<"read">>,
         transactions    |-> <<"read">>]]

\* variant: the ADMIN row leaves delete out on transactions
rolePermissionsTableAdminGap ==
    [ADMIN |->
        [s \in Resource |->
            IF s = "transactions" THEN <<"create", "read", "update", "manage">>
            ELSE AllFive],
     RESTAURANT_OWNER |->
        [users           |-> <<"read">>,
         restaurants     |-> <<"read", "update">>,
         menuItems       |-> Crud,
         orders          |-> <<"read", "update">>,
         reviews         |-> <<"read">>,
         addresses       |-> <<"read">>,
         deliveryPersons |-> <<"read", "update">>,
         transactions    |-> <<"read">>],
     CUSTOMER |->
        [users           |-> <<"read", "update">>,
         restaurants     |-> <<"read">>,
         menuItems       |-> <<"read">>,
         orders          |-> <<"create", "read", "update">>,
         reviews         |-> Crud,
         addresses       |-> Crud,
         deliveryPersons |-> <<"read">>,
         transactions    |-> <<"read">>]]

rolePermissionsTable ==
    [ADMIN |->
        [users           |-> AllFive,
         restaurants     |-> AllFive,
         menuItems       |-> AllFive,
         orders          |-> AllFive,
         reviews         |-> AllFive,
         addresses       |-> AllFive,
         deliveryPersons |-> AllFive,
         transactions    |-> AllFive],
     RESTAURANT_OWNER |->
        [users           |-> <<"read">>,
         restaurants     |-> <<"read", "update">>,
         menuItems       |-> Crud,
         orders          |-> <<"read", "update">>,
         reviews         |-> <<"read">>,
         addresses       |-> <<"read">>,
         deliveryPersons |-> <<"read", "update">>,
         transactions    |-> <<"read">>],
     CUSTOMER |->
        [users           |-> <<"read", "update">>,
         restaurants     |-> <<"read">>,
         menuItems       |-> <<"read">>,
         orders          |-> <<"create", "read", "update">>,
         reviews         |-> Crud,
         addresses       |-> Crud,
         deliveryPersons |-> <<"read">>,
         transactions    |-> <<"read">>]]

\* the matrix as the object literal the helpers index into
rolePermissions ==
    JsObject([r \in DOMAIN rolePermissionsTable |->
                JsObject([s \in DOMAIN rolePermissionsTable[r] |->
                            JsArray(rolePermissionsTable[r][s])])])

Contains(xs, x) == \E i \in 1..Len(xs) : xs[i] = x

RECURSIVE IsSubstring(_, _)
IsSubstring(s, sub) ==
    IF Len(s) < Len(sub) THEN FALSE
    ELSE IF SubSeq(s, 1, Len(sub)) = sub THEN TRUE
    ELSE IsSubstring(Tail(s), sub)

\* permissions.includes(x): Array.prototype.includes, String.prototype.includes,
\* or a TypeError when the receiver has no such method
Includes(v, x) ==
    CASE v.t = "array"  -> Returns(JsBool(Contains(v.items, x)))
      [] v.t = "string" -> Returns(JsBool(IsSubstring(v.str, x)))
      [] OTHER          -> Throws

\* variant: without the 'manage' shortcut
hasPermissionListedOnly(role, resource, permission) ==
    LET permissions == OptGet(Get(rolePermissions, role), resource)
    IN  IF ~Truthy(permissions) THEN ReturnsFalse
        ELSE Includes(permissions, permission)

hasPermission(role, resource, permission) ==
    LET permissions == OptGet(Get(rolePermissions, role), resource)
        manages     == Includes(permissions, "manage")
    IN  IF ~Truthy(permissions) THEN ReturnsFalse
        ELSE IF manages.threw THEN Throws
        ELSE IF manages.value.b THEN ReturnsTrue
        ELSE Includes(permissions, permission)

\* permissions.some(p => hasPermission(role, resource, p))
RECURSIVE hasAnyPermission(_, _, _)
hasAnyPermission(role, resource, permissions) ==
    IF permissions = <<>> THEN ReturnsFalse
    ELSE LET first == hasPermission(role, resource, Head(permissions))
         IN  IF first.threw THEN Throws
             ELSE IF first.value.b THEN ReturnsTrue
             ELSE hasAnyPermission(role, resource, Tail(permissions))

\* variant: `some` where the helper has `every`
hasAllPermissionsAsSome(role, resource, permissions) ==
    hasAnyPermission(role, resource, permissions)

\* permissions.every(p => hasPermission(role, resource, p))
RECURSIVE hasAllPermissions(_, _, _)
hasAllPermissions(role, resource, permissions) ==
    IF permissions = <<>> THEN ReturnsTrue
    ELSE LET first == hasPermission(role, resource, Head(permissions))
         IN  IF first.threw THEN Throws
             ELSE IF ~first.value.b THEN ReturnsFalse
             ELSE hasAllPermissions(role, resource, Tail(permissions))

\* rolePermissions[role]?.[resource] || []
getPermissions(role, resource) ==
    LET found == OptGet(Get(rolePermissions, role), resource)
    IN  IF Truthy(found) THEN Returns(found) ELSE Returns(JsArray(<<>>))

roleHierarchyTable ==
    [ADMIN |->
        [level |-> 3,
         description |-> "Full system access - can manage all users, restaurants, and platform settings"],
     RESTAURANT_OWNER |->
        [level |-> 2,
         description |-> "Can manage their own restaurant, menu items, and orders"],
     CUSTOMER |->
        [level |-> 1,
         description |-> "Basic user access - can browse, order, and review"]]

\* roleHierarchy as the object literal hasHigherOrEqualRole indexes into
roleHierarchy ==
    JsObject([r \in DOMAIN roleHierarchyTable |->
                JsObject([level       |-> JsNumber(roleHierarchyTable[r].level),
                          description |-> JsString(roleHierarchyTable[r].description)])])

\* v.key: a TypeError when v is undefined or null
GetMember(v, key) ==
    IF v.t \in {"undefined", "null"} THEN Throws ELSE Returns(Get(v, key))

\* x >= y on the values a level lookup yields: numbers compare, undefined
\* converts to NaN and compares false
GreaterOrEqual(x, y) ==
    IF x.t = "number" /\ y.t = "number" THEN JsBool(x.num >= y.num) ELSE JsBool(FALSE)

\* roleHierarchy[role].level >= roleHierarchy[targetRole].level
hasHigherOrEqualRole(role, targetRole) ==
    LET level       == GetMember(Get(roleHierarchy, role), "level")
        targetLevel == GetMember(Get(roleHierarchy, targetRole), "level")
    IN  IF level.threw \/ targetLevel.threw THEN Throws
        ELSE Returns(GreaterOrEqual(level.value, targetLevel.value))

-----------------------------------------------------------------------------
(* Inputs of the helper calls: the typed values and values outside the types *)

RoleInputs       == UserRole \cup {"user", "admin", "constructor", "__proto__"}
ResourceInputs   == Resource \cup {"payments", "constructor", "name", "length"}
PermissionInputs == Permission \cup {"approve"}

PermissionLists ==
    UNION {[1..n -> PermissionInputs] : n \in 0..MaxPermList}

HelperCall(fn, role, resource, permission, permissions) ==
    [fn |-> fn, role |-> role, resource |-> resource, permission |-> permission,
     permissions |-> permissions, targetRole |-> ""]

\* a call of hasHigherOrEqualRole(role, targetRole)
RoleCall(role, targetRole) ==
    [HelperCall("hasHigherOrEqualRole", role, "", "", <<>>) EXCEPT
        !.targetRole = targetRole]

NoCall == HelperCall("none", "", "", "", <<>>)

HelperCalls ==
    {HelperCall("hasPermission", role, resource, permission, <<>>) :
        role \in RoleInputs, resource \in ResourceInputs, permission \in PermissionInputs}
    \cup
    {HelperCall(fn, role, resource, "", permissions) :
        fn \in {"hasAnyPermission", "hasAllPermissions"},
        role \in RoleInputs, resource \in ResourceInputs, permissions \in PermissionLists}
    \cup
    {HelperCall("getPermissions", role, resource, "", <<>>) :
        role \in RoleInputs, resource \in ResourceInputs}
    \cup
    {RoleCall(role, targetRole) : role \in RoleInputs, targetRole \in RoleInputs}

\* the call has not returned yet
NotReturned == [threw |-> FALSE, value |-> [t |-> "pending"]]

Returned == rbacResult.value.t # "pending"

CallHasPermission ==
    /\ rbacCall.fn = "hasPermission"
    /\ ~Returned
    /\ rbacResult' = hasPermission(rbacCall.role, rbacCall.resource, rbacCall.permission)
    /\ UNCHANGED <<rbacCall, rbacTest, mwVars, authVars, uiVars>>

CallHasAnyPermission ==
    /\ rbacCall.fn = "hasAnyPermission"
    /\ ~Returned
    /\ rbacResult' = hasAnyPermission(rbacCall.role, rbacCall.resource, rbacCall.permissions)
    /\ UNCHANGED <<rbacCall, rbacTest, mwVars, authVars, uiVars>>

CallHasAllPermissions ==
    /\ rbacCall.fn = "hasAllPermissions"
    /\ ~Returned
    /\ rbacResult' = hasAllPermissions(rbacCall.role, rbacCall.resource, rbacCall.permissions)
    /\ UNCHANGED <<rbacCall, rbacTest, mwVars, authVars, uiVars>>

CallGetPermissions ==
    /\ rbacCall.fn = "getPermissions"
    /\ ~Returned
    /\ rbacResult' = getPermissions(rbacCall.role, rbacCall.resource)
    /\ UNCHANGED <<rbacCall, rbacTest, mwVars, authVars, uiVars>>

CallHasHigherOrEqualRole ==
    /\ rbacCall.fn = "hasHigherOrEqualRole"
    /\ ~Returned
    /\ rbacResult' = hasHigherOrEqualRole(rbacCall.role, rbacCall.targetRole)
    /\ UNCHANGED <<rbacCall, rbacTest, mwVars, authVars, uiVars>>

-----------------------------------------------------------------------------
(* scripts/test_rbac.ts, "9. TEST SUMMARY": the loop that counts the checks *)

TestRoles       == <<"ADMIN", "RESTAURANT_OWNER", "CUSTOMER">>
TestResources   == <<"users", "restaurants", "menuItems", "orders", "reviews", "addresses">>
TestPermissions == <<"create", "read", "update", "delete">>

\* the loop is about to enter the body for the first role, resource and permission
TestStart ==
    [pc |-> "count", role |-> 1, resource |-> 1, permission |-> 1,
     totalTests |-> 0, passed |-> 0, failed |-> 0]

\* stats.totalTests++
TestCount ==
    /\ rbacTest.pc = "count"
    /\ rbacTest' = [rbacTest EXCEPT !.totalTests = @ + 1, !.pc = "check"]
    /\ UNCHANGED <<rbacCall, rbacResult, mwVars, authVars, uiVars>>

\* if (hasPermission(role, resource, permission)) stats.passed++ else
\* stats.failed++, and on to the next permission, resource or role
TestCheck ==
    LET role       == TestRoles[rbacTest.role]
        resource   == TestResources[rbacTest.resource]
        permission == TestPermissions[rbacTest.permission]
        outcome    == hasPermission(role, resource, permission)
        allowed    == Truthy(outcome.value)
        lastPermission == rbacTest.permission = Len(TestPermissions)
        lastResource   == rbacTest.resource = Len(TestResources)
        lastRole       == rbacTest.role = Len(TestRoles)
    IN  /\ rbacTest.pc = "check"
        /\ ~outcome.threw
        /\ rbacCall' = HelperCall("hasPermission", role, resource, permission, <<>>)
        /\ rbacResult' = outcome
        /\ rbacTest' =
              [rbacTest EXCEPT
                 !.passed = IF allowed THEN @ + 1 ELSE @,
                 !.failed = IF allowed THEN @ ELSE @ + 1,
                 !.permission = IF lastPermission THEN 1 ELSE @ + 1,
                 !.resource = IF ~lastPermission THEN @
                              ELSE IF lastResource THEN 1 ELSE @ + 1,
                 !.role = IF lastPermission /\ lastResource /\ ~lastRole THEN @ + 1 ELSE @,
                 !.pc = IF lastPermission /\ lastResource /\ lastRole
                          THEN "done" ELSE "count"]
        /\ UNCHANGED <<mwVars, authVars, uiVars>>

-----------------------------------------------------------------------------
(* middleware.ts *)

JWT_SECRET == "dev_jwt_secret_change_me"

Absent  == <<>>          \* a header, cookie or claim that is not there
Some(x) == <<x>>

\* s.startsWith(prefix)
StartsWith(s, prefix) ==
    /\ Len(s) >= Len(prefix)
    /\ SubSeq(s, 1, Len(prefix)) = prefix

\* s.split(' ')
RECURSIVE SplitFrom(_, _, _)
SplitFrom(s, cur, acc) ==
    IF s = "" THEN Append(acc, cur)
    ELSE IF SubSeq(s, 1, 1) = " " THEN SplitFrom(Tail(s), "", Append(acc, cur))
    ELSE SplitFrom(Tail(s), cur \o SubSeq(s, 1, 1), acc)

Split(s) == SplitFrom(s, "", <<>>)

UpperChar(c) ==
    CASE c = "a" -> "A" [] c = "b" -> "B" [] c = "c" -> "C" [] c = "d" -> "D"
      [] c = "e" -> "E" [] c = "f" -> "F" [] c = "g" -> "G" [] c = "h" -> "H"
      [] c = "i" -> "I" [] c = "j" -> "J" [] c = "k" -> "K" [] c = "l" -> "L"
      [] c = "m" -> "M" [] c = "n" -> "N" [] c = "o" -> "O" [] c = "p" -> "P"
      [] c = "q" -> "Q" [] c = "r" -> "R" [] c = "s" -> "S" [] c = "t" -> "T"
      [] c = "u" -> "U" [] c = "v" -> "V" [] c = "w" -> "W" [] c = "x" -> "X"
      [] c = "y" -> "Y" [] c = "z" -> "Z" [] OTHER -> c

\* s.toUpperCase()
RECURSIVE ToUpperCase(_)
ToUpperCase(s) ==
    IF s = "" THEN "" ELSE UpperChar(SubSeq(s, 1, 1)) \o ToUpperCase(Tail(s))

\* The tokens a client can present: who signed them, whether they are past
\* their exp, and the claims they carry.
Claims(id, email, role) == [id |-> id, email |-> email, role |-> role]

IssuedTokens ==
    [jwtAdmin      |-> [secret |-> JWT_SECRET, expired |-> FALSE,
                        payload |-> Claims(Some(1), Some("admin@example.com"), Some("ADMIN"))],
     jwtAdminLower |-> [secret |-> JWT_SECRET, expired |-> FALSE,
                        payload |-> Claims(Some(2), Some("root@example.com"), Some("admin"))],
     jwtCustomer   |-> [secret |-> JWT_SECRET, expired |-> FALSE,
                        payload |-> Claims(Some(3), Some("user@example.com"), Some("CUSTOMER"))],
     jwtGuest      |-> [secret |-> JWT_SECRET, expired |-> FALSE,
                        payload |-> Claims(Some(4), Some("guest@example.com"), Some("guest"))],
     jwtNoClaims   |-> [secret |-> JWT_SECRET, expired |-> FALSE,
                        payload |-> Claims(Absent, Absent, Absent)],
     jwtRolePadded |-> [secret |-> JWT_SECRET, expired |-> FALSE,
                        payload |-> Claims(Some(5), Some("staff@example.com"), Some(" staff"))],
     jwtRoleTwoLines |-> [secret |-> JWT_SECRET, expired |-> FALSE,
                        payload |-> Claims(Some(6), Some("cook@example.com"), Some("cook\nchef"))],
     jwtExpired    |-> [secret |-> JWT_SECRET, expired |-> TRUE,
                        payload |-> Claims(Some(1), Some("admin@example.com"), Some("ADMIN"))],
     jwtForged     |-> [secret |-> "attacker_secret", expired |-> FALSE,
                        payload |-> Claims(Some(1), Some("admin@example.com"), Some("ADMIN"))]]

Tokens == DOMAIN IssuedTokens \cup {"garbage"}

\* variant: jwt.decode, which checks neither the signature nor the expiry
jwtDecodeOnly(token, secret) ==
    IF token \in DOMAIN IssuedTokens
    THEN [ok |-> TRUE, decoded |-> IssuedTokens[token].payload]
    ELSE [ok |-> FALSE, decoded |-> Claims(Absent, Absent, Absent)]

\* jwt.verify(token, secret): the claims, or a thrown error for a malformed
\* token, a signature made with another secret, or an expired token
jwtVerify(token, secret) ==
    IF /\ token \in DOMAIN IssuedTokens
       /\ IssuedTokens[token].secret = secret
       /\ ~IssuedTokens[token].expired
    THEN [ok |-> TRUE, decoded |-> IssuedTokens[token].payload]
    ELSE [ok |-> FALSE, decoded |-> Claims(Absent, Absent, Absent)]

HeaderNames == {"authorization", "x-user-id", "x-user-email", "x-user-role"}
XUserHeaders == {"x-user-id", "x-user-email", "x-user-role"}

NoHeaders == [h \in HeaderNames |-> Absent]

\* NextResponse.next(): the request goes on to the handler with these headers
NextResponseNext(headers) ==
    [kind |-> "next", status |-> 200, message |-> "", location |-> "",
     forwarded |-> Some(headers)]

\* NextResponse.json({ success: false, message }, { status })
NextResponseJson(message, status) ==
    [kind |-> "json", status |-> status, message |-> message, location |-> "",
     forwarded |-> Absent]

\* NextResponse.redirect(new URL(path, req.url))
NextResponseRedirect(path) ==
    [kind |-> "redirect", status |-> 307, message |-> "", location |-> path,
     forwarded |-> Absent]

Pending ==
    [kind |-> "pending", status |-> 0, message |-> "", location |-> "",
     forwarded |-> Absent]

\* Headers.prototype.set(name, value) first strips leading and trailing HTTP
\* whitespace from the value
HttpWhitespace == {" ", "\t", "\n", "\r"}

RECURSIVE StripLeading(_)
StripLeading(s) ==
    IF s # "" /\ SubSeq(s, 1, 1) \in HttpWhitespace THEN StripLeading(Tail(s)) ELSE s

RECURSIVE StripTrailing(_)
StripTrailing(s) ==
    IF s # "" /\ SubSeq(s, Len(s), Len(s)) \in HttpWhitespace
      THEN StripTrailing(SubSeq(s, 1, Len(s) - 1))
      ELSE s

NormalizeHeaderValue(s) == StripTrailing(StripLeading(s))

\* a header value holds no line break (nor NUL, nor a character above U+00FF;
\* the strings of this model hold neither)
IsHeaderValue(s) == \A i \in 1..Len(s) : SubSeq(s, i, i) \notin {"\n", "\r"}

\* headers.set(name, value): the headers with the normalised value under name,
\* or a thrown TypeError when the normalised value is not a header value
HeadersSet(headers, name, value) ==
    LET v == NormalizeHeaderValue(value)
    IN  IF IsHeaderValue(v)
          THEN [ok |-> TRUE, headers |-> [headers EXCEPT ![name] = Some(v)]]
          ELSE [ok |-> FALSE, headers |-> headers]

\* variant: a header the client sent is kept
attachUserHeadersKeepClient(headers, decoded, role) ==
    LET keep(hs, name, value) ==
            IF hs.ok /\ hs.headers[name] = Absent
              THEN HeadersSet(hs.headers, name, value)
              ELSE hs
        id    == keep([ok |-> TRUE, headers |-> headers], "x-user-id",
                      IF decoded.id = Absent THEN "" ELSE ToString(decoded.id[1]))
        email == keep(id, "x-user-email",
                      IF decoded.email = Absent THEN "" ELSE decoded.email[1])
    IN  keep(email, "x-user-role", role)

\* new Headers(req.headers) and the three requestHeaders.set calls; the first
\* set that throws ends the sequence
attachUserHeaders(headers, decoded, role) ==
    LET set(hs, name, value) ==
            IF hs.ok THEN HeadersSet(hs.headers, name, value) ELSE hs
        id    == set([ok |-> TRUE, headers |-> headers], "x-user-id",
                     IF decoded.id = Absent THEN "" ELSE ToString(decoded.id[1]))
        email == set(id, "x-user-email",
                     IF decoded.email = Absent THEN "" ELSE decoded.email[1])
    IN  set(email, "x-user-role", role)

\* variant: the guard compares the whole pathname
adminOnlyGuardExact(pathname, role) ==
    pathname = "/api/admin" /\ role # "ADMIN"

\* pathname.startsWith('/api/admin') && role !== 'ADMIN'
adminOnlyGuard(pathname, role) ==
    StartsWith(pathname, "/api/admin") /\ role # "ADMIN"

\* variant: the branch without its `if (!token)` test
apiRouteNoMissingCheck(r) ==
    LET authHeader == r.headers["authorization"]
        parts      == IF authHeader = Absent THEN <<>> ELSE Split(authHeader[1])
        token      == IF Len(parts) >= 2 THEN parts[2] ELSE ""
        verified   == jwtVerify(token, JWT_SECRET)
        decoded    == verified.decoded
        role       == ToUpperCase(IF decoded.role = Absent THEN "" ELSE decoded.role[1])
        requestHeaders == attachUserHeaders(r.headers, decoded, role)
    IN  IF ~verified.ok
          THEN NextResponseJson("Invalid or expired token", 403)
        ELSE IF adminOnlyGuard(r.pathname, role)
          THEN NextResponseJson("Access denied", 403)
        ELSE IF ~requestHeaders.ok
          THEN NextResponseJson("Invalid or expired token", 403)
        ELSE NextResponseNext(requestHeaders.headers)

\* the /api/admin and /api/users branch
apiRoute(r) ==
    LET authHeader == r.headers["authorization"]
        parts      == IF authHeader = Absent THEN <<>> ELSE Split(authHeader[1])
        token      == IF Len(parts) >= 2 THEN parts[2] ELSE ""
    IN  IF token = "" THEN NextResponseJson("Token missing", 401)
        ELSE
          LET verified == jwtVerify(token, JWT_SECRET)
              decoded  == verified.decoded
              role     == ToUpperCase(IF decoded.role = Absent THEN "" ELSE decoded.role[1])
              requestHeaders == attachUserHeaders(r.headers, decoded, role)
          IN  IF ~verified.ok
                THEN NextResponseJson("Invalid or expired token", 403)
              ELSE IF adminOnlyGuard(r.pathname, role)
                THEN NextResponseJson("Access denied", 403)
              \* a TypeError thrown by requestHeaders.set lands in the same catch
              ELSE IF ~requestHeaders.ok
                THEN NextResponseJson("Invalid or expired token", 403)
              ELSE NextResponseNext(requestHeaders.headers)

\* variant: without a cookie the branch falls back to the Authorization header
pageRouteHeaderFallback(r) ==
    LET authHeader == r.headers["authorization"]
        parts      == IF authHeader = Absent THEN <<>> ELSE Split(authHeader[1])
        bearer     == IF Len(parts) >= 2 THEN parts[2] ELSE ""
        token      == IF r.cookie = Absent \/ r.cookie[1] = "" THEN bearer ELSE r.cookie[1]
    IN  IF token = "" THEN NextResponseRedirect("/login")
        ELSE IF jwtVerify(token, JWT_SECRET).ok THEN NextResponseNext(r.headers)
        ELSE NextResponseRedirect("/login")

\* the /dashboard and /users branch
pageRoute(r) ==
    LET token == IF r.cookie = Absent THEN "" ELSE r.cookie[1]
    IN  IF token = "" THEN NextResponseRedirect("/login")
        ELSE IF jwtVerify(token, JWT_SECRET).ok THEN NextResponseNext(r.headers)
        ELSE NextResponseRedirect("/login")

middleware(r) ==
    IF r.pathname = "/" \/ StartsWith(r.pathname, "/login")
      THEN NextResponseNext(r.headers)
    ELSE IF StartsWith(r.pathname, "/api/admin") \/ StartsWith(r.pathname, "/api/users")
      THEN apiRoute(r)
    ELSE IF StartsWith(r.pathname, "/dashboard") \/ StartsWith(r.pathname, "/users")
      THEN pageRoute(r)
    ELSE NextResponseNext(r.headers)

(* Requests *)

Pathnames ==
    {"/", "/login", "/about", "/dashboard", "/dashboard/settings", "/users",
     "/users/1", "/api/admin", "/api/admin/stats", "/api/users", "/api/users/1",
     "/api/auth/login"}

AuthorizationHeaders ==
    {Absent, Some("Bearer"), Some("Bearer  jwtAdmin")}
    \cup {Some("Bearer " \o t) : t \in Tokens}
    \cup {Some(t) : t \in {"jwtAdmin", "jwtCustomer"}}
    \cup {Some("Token jwtAdmin")}

Cookies == {Absent, Some("")} \cup {Some(t) : t \in Tokens}

\* x-user-* headers a client may send along itself
ClientXUser ==
    {NoHeaders,
     [h \in HeaderNames |->
        CASE h = "x-user-id" -> Some("1")
          [] h = "x-user-email" -> Some("admin@example.com")
          [] h = "x-user-role" -> Some("ADMIN")
          [] OTHER -> Absent]}

Requests ==
    {[pathname |-> p,
      headers  |-> [h \in HeaderNames |-> IF h = "authorization" THEN a ELSE x[h]],
      cookie   |-> c] :
        p \in Pathnames, a \in AuthorizationHeaders, c \in Cookies, x \in ClientXUser}

\* the framework hands the request to middleware() and takes its response
RunMiddleware ==
    /\ res.kind = "pending"
    /\ res' = middleware(req)
    /\ UNCHANGED <<req, rbacVars, authVars, uiVars>>

-----------------------------------------------------------------------------
(* context/AuthContext.tsx *)

\* localStorage without the keys of UIProvider
EmptyUIStore == [theme |-> Absent, language |-> Absent, notifications |-> Absent]

Undefined == "<undefined>"      \* the value read from a property that is not set

UserFields == <<"id", "name", "email", "role">>

\* `User | null`
NoUser == [present |-> FALSE, id |-> Undefined, name |-> Undefined,
           email |-> Undefined, role |-> Undefined]

MakeUser(id, name, email, role) ==
    [present |-> TRUE, id |-> id, name |-> name, email |-> email, role |-> role]

\* { ...u, ...userData }: userData is a sequence of <<key, value>> entries
RECURSIVE Spread(_, _)
Spread(u, userData) ==
    IF userData = <<>> THEN u
    ELSE Spread([u EXCEPT ![Head(userData)[1]] = Head(userData)[2]], Tail(userData))

\* JSON.stringify(u): the members in property order, those whose value is
\* undefined left out
RECURSIVE StringifyFields(_, _)
StringifyFields(u, fields) ==
    IF fields = <<>> THEN <<>>
    ELSE LET f == Head(fields)
         IN  (IF u[f] = Undefined THEN <<>> ELSE <<<<f, u[f]>>>>)
                \o StringifyFields(u, Tail(fields))

JSONstringify(u) == [wellFormed |-> TRUE, members |-> StringifyFields(u, UserFields)]

\* a stored string that is not JSON
CorruptJson == [wellFormed |-> FALSE, members |-> <<>>]

\* JSON.parse(text): the object with the members of the text
JSONparse(text) == Spread([NoUser EXCEPT !.present = TRUE], text.members)

\* the lazy initialiser of useState<User | null>: the user it returns and the
\* authUser entry it leaves behind
AuthProviderInit(stored) ==
    IF stored = Absent THEN [user |-> NoUser, store |-> Absent]
    ELSE IF stored[1].wellFormed
      THEN [user |-> JSONparse(stored[1]), store |-> stored]
    ELSE [user |-> NoUser, store |-> Absent]

Usernames  == {"alice", "bob"}
Emails     == {"alice@example.com"}
LoginRoles == {Absent, Some("admin"), Some("ADMIN"), Some("CUSTOMER"),
               Some("RESTAURANT_OWNER")}

\* Partial<User> arguments of updateUser
UserUpdates ==
    {<<>>, <<<<"name", "carol">>>>, <<<<"name", Undefined>>>>,
     <<<<"role", "ADMIN">>>>, <<<<"role", "user">>, <<"email", "bob@example.com">>>>}

\* authUser entries a previous visit may have left
InitialAuthStores ==
    {Absent, Some(CorruptJson),
     Some(JSONstringify(MakeUser("0", "alice", "alice@example.com", "CUSTOMER")))}

\* variant: the new user spread over the previous one, an omitted role keeping
\* the previous role
loginMerging(username, email, roleArg, now) ==
    LET role    == IF roleArg # Absent THEN roleArg[1]
                   ELSE IF renderedUser.present THEN renderedUser.role
                   ELSE "user"
        newUser == MakeUser(ToString(now), username, email, role)
    IN  /\ now >= clock
        /\ now <= MaxClock
        /\ clock' = now
        /\ user' = newUser
        /\ authStore' = Some(JSONstringify(newUser))
        /\ authOp' = "login"
        /\ UNCHANGED <<renderedUser, rbacVars, mwVars, uiVars>>

login(username, email, roleArg, now) ==
    LET role    == IF roleArg = Absent THEN "user" ELSE roleArg[1]
        newUser == MakeUser(ToString(now), username, email, role)
    IN  /\ now >= clock
        /\ now <= MaxClock
        /\ clock' = now
        /\ user' = newUser
        /\ authStore' = Some(JSONstringify(newUser))
        /\ authOp' = "login"
        /\ UNCHANGED <<renderedUser, rbacVars, mwVars, uiVars>>

\* variant: localStorage.clear() where logout has removeItem("authUser")
logoutClearsStorage ==
    /\ user' = NoUser
    /\ authStore' = Absent
    /\ authOp' = "logout"
    /\ uiStore' = EmptyUIStore
    /\ UNCHANGED <<renderedUser, clock, rbacVars, mwVars, theme, sidebarOpen,
                   language, notifications, rootDark, uiBatch, uiOp>>

\* variant: logout that leaves the authUser entry in place
logoutKeepsStore ==
    /\ user' = NoUser
    /\ authOp' = "logout"
    /\ UNCHANGED <<authStore, renderedUser, clock, rbacVars, mwVars, uiVars>>

logout ==
    /\ user' = NoUser
    /\ authStore' = Absent
    /\ authOp' = "logout"
    /\ UNCHANGED <<renderedUser, clock, rbacVars, mwVars, uiVars>>

\* `user` inside updateUser is the value of the render that created the callback
updateUserStateOnly(userData) ==
    /\ authOp' = "updateUser"
    /\ IF renderedUser.present
         THEN user' = Spread(renderedUser, userData)
         ELSE UNCHANGED user
    /\ UNCHANGED <<authStore, renderedUser, clock, rbacVars, mwVars, uiVars>>

updateUser(userData) ==
    /\ authOp' = "updateUser"
    /\ IF renderedUser.present
         THEN LET updatedUser == Spread(renderedUser, userData)
              IN  /\ user' = updatedUser
                  /\ authStore' = Some(JSONstringify(updatedUser))
         ELSE UNCHANGED <<user, authStore>>
    /\ UNCHANGED <<renderedUser, clock, rbacVars, mwVars, uiVars>>

\* React re-renders AuthProvider with the new state; its callbacks are re-created
AuthRender ==
    /\ renderedUser # user
    /\ renderedUser' = user
    /\ authOp' = "render"
    /\ UNCHANGED <<user, authStore, clock, rbacVars, mwVars, uiVars>>

\* page refresh: AuthProvider is constructed again from localStorage
AuthRefresh ==
    /\ user' = AuthProviderInit(authStore).user
    /\ authStore' = AuthProviderInit(authStore).store
    /\ renderedUser' = user'
    /\ authOp' = "refresh"
    /\ UNCHANGED <<clock, rbacVars, mwVars, uiVars>>

-----------------------------------------------------------------------------
(* hooks/useAuth.ts, evaluated on the user u the provider holds *)

\* !!user
isAuthenticated(u) == u.present

\* user?.role === "admin", the isAdmin of useAuth
useAuthIsAdmin(u) == u.present /\ u.role = "admin"

\* user?.name || "Guest"
getUserName(u) ==
    IF ~u.present \/ u.name = Undefined \/ u.name = "" THEN "Guest" ELSE u.name

\* user?.email || ""
getUserEmail(u) ==
    IF ~u.present \/ u.email = Undefined THEN "" ELSE u.email

-----------------------------------------------------------------------------
(* hooks/usePermissions.ts, evaluated in the render that sees user u *)

\* user?.role
userRoleOf(u) == IF u.present THEN u.role ELSE Undefined

\* !userRole
NoRole(userRole) == userRole = Undefined \/ userRole = ""

\* variant: resource and permission handed over in the order can() takes them
canSwappedArguments(u, permission, resource) ==
    IF NoRole(userRoleOf(u)) THEN ReturnsFalse
    ELSE hasPermission(userRoleOf(u), permission, resource)

can(u, permission, resource) ==
    IF NoRole(userRoleOf(u)) THEN ReturnsFalse
    ELSE hasPermission(userRoleOf(u), resource, permission)

canAny(u, permissions, resource) ==
    IF NoRole(userRoleOf(u)) THEN ReturnsFalse
    ELSE hasAnyPermission(userRoleOf(u), resource, permissions)

canAll(u, permissions, resource) ==
    IF NoRole(userRoleOf(u)) THEN ReturnsFalse
    ELSE hasAllPermissions(userRoleOf(u), resource, permissions)

\* userRole === role
hasRole(u, role) == Returns(JsBool(userRoleOf(u) = role))

hasRoleLevel(u, role) ==
    IF NoRole(userRoleOf(u)) THEN ReturnsFalse
    ELSE hasHigherOrEqualRole(userRoleOf(u), role)

\* userRole === "ADMIN", the isAdmin of usePermissions
usePermissionsIsAdmin(u) == userRoleOf(u) = "ADMIN"

-----------------------------------------------------------------------------
(* context/UIContext.tsx *)

Theme    == {"light", "dark"}
Language == {"en", "es", "fr"}

\* newValue.toString()
BoolToString(b) == IF b THEN "true" ELSE "false"

\* the three lazy initialisers of UIProvider and useState(false) for the sidebar
UIProviderInit(store) ==
    [theme |-> IF store.theme = Absent \/ store.theme[1] = ""
                 THEN "light" ELSE store.theme[1],
     sidebarOpen |-> FALSE,
     language |-> IF store.language = Absent \/ store.language[1] = ""
                    THEN "en" ELSE store.language[1],
     notifications |-> IF store.notifications = Absent
                         THEN TRUE ELSE store.notifications[1] = "true"]

\* No update of UIProvider is scheduled.  React then runs an updater function
\* at once, inside the setState call; otherwise it queues the updater and runs
\* it, with its side effects, while rendering.
NoBatch(renderedTheme) ==
    [mounted |-> TRUE, pending |-> FALSE, themeWrite |-> Absent,
     notificationsWrite |-> Absent, renderedTheme |-> renderedTheme]

\* what a previous visit may have left in localStorage
InitialUIStores ==
    {[theme |-> t, language |-> l, notifications |-> n] :
        t \in {Absent} \cup {Some(x) : x \in Theme},
        l \in {Absent} \cup {Some(x) : x \in Language},
        n \in {Absent, Some("true"), Some("false")}}

\* useEffect(() => classList.toggle("dark", theme === "dark"), [theme]) on mount
UIMountEffect ==
    /\ ~uiBatch.mounted
    /\ rootDark' = (theme = "dark")
    /\ uiBatch' = [uiBatch EXCEPT !.mounted = TRUE]
    /\ uiOp' = "mount"
    /\ UNCHANGED <<theme, sidebarOpen, language, notifications, uiStore,
                   rbacVars, mwVars, authVars>>

toggleTheme ==
    LET newTheme == IF theme = "light" THEN "dark" ELSE "light"
    IN  /\ uiBatch.mounted
        /\ theme' = newTheme
        /\ IF ~uiBatch.pending
             THEN /\ uiStore' = [uiStore EXCEPT !.theme = Some(newTheme)]
                  /\ rootDark' = (newTheme = "dark")
                  /\ uiBatch' = [uiBatch EXCEPT !.pending = TRUE]
             ELSE /\ uiBatch' = [uiBatch EXCEPT !.themeWrite = Some(newTheme)]
                  /\ UNCHANGED <<uiStore, rootDark>>
        /\ uiOp' = "toggleTheme"
        /\ UNCHANGED <<sidebarOpen, language, notifications, rbacVars, mwVars, authVars>>

setTheme(newTheme) ==
    /\ uiBatch.mounted
    /\ theme' = newTheme
    /\ uiStore' = [uiStore EXCEPT !.theme = Some(newTheme)]
    /\ rootDark' = (newTheme = "dark")
    /\ uiBatch' = [uiBatch EXCEPT !.pending = @ \/ newTheme # theme]
    /\ uiOp' = "setTheme"
    /\ UNCHANGED <<sidebarOpen, language, notifications, rbacVars, mwVars, authVars>>

toggleSidebar ==
    /\ uiBatch.mounted
    /\ sidebarOpen' = ~sidebarOpen
    /\ uiBatch' = [uiBatch EXCEPT !.pending = TRUE]
    /\ uiOp' = "toggleSidebar"
    /\ UNCHANGED <<theme, language, notifications, uiStore, rootDark,
                   rbacVars, mwVars, authVars>>

setSidebarOpen(open) ==
    /\ uiBatch.mounted
    /\ sidebarOpen' = open
    /\ uiBatch' = [uiBatch EXCEPT !.pending = @ \/ open # sidebarOpen]
    /\ uiOp' = "setSidebarOpen"
    /\ UNCHANGED <<theme, language, notifications, uiStore, rootDark,
                   rbacVars, mwVars, authVars>>

setLanguageHandler(lang) ==
    /\ uiBatch.mounted
    /\ language' = lang
    /\ uiStore' = [uiStore EXCEPT !.language = Some(lang)]
    /\ uiBatch' = [uiBatch EXCEPT !.pending = @ \/ lang # language]
    /\ uiOp' = "setLanguage"
    /\ UNCHANGED <<theme, sidebarOpen, notifications, rootDark,
                   rbacVars, mwVars, authVars>>

toggleNotifications ==
    LET newValue == ~notifications
    IN  /\ uiBatch.mounted
        /\ notifications' = newValue
        /\ IF ~uiBatch.pending
             THEN /\ uiStore' = [uiStore EXCEPT !.notifications = Some(BoolToString(newValue))]
                  /\ uiBatch' = [uiBatch EXCEPT !.pending = TRUE]
             ELSE /\ uiBatch' = [uiBatch EXCEPT
                                    !.notificationsWrite = Some(BoolToString(newValue))]
                  /\ UNCHANGED uiStore
        /\ uiOp' = "toggleNotifications"
        /\ UNCHANGED <<theme, sidebarOpen, language, rootDark, rbacVars, mwVars, authVars>>

\* React renders UIProvider: the queued updaters run, in order, with their
\* localStorage and classList writes; then the [theme] effect runs if the
\* theme differs from the one of the previous render
UIRender ==
    /\ uiBatch.mounted
    /\ uiBatch.pending
    /\ uiStore' = [uiStore EXCEPT
                     !.theme = IF uiBatch.themeWrite = Absent THEN @
                               ELSE uiBatch.themeWrite,
                     !.notifications = IF uiBatch.notificationsWrite = Absent THEN @
                                       ELSE uiBatch.notificationsWrite]
    /\ rootDark' = IF theme # uiBatch.renderedTheme THEN theme = "dark"
                   ELSE IF uiBatch.themeWrite # Absent THEN uiBatch.themeWrite[1] = "dark"
                   ELSE rootDark
    /\ uiBatch' = NoBatch(theme)
    /\ uiOp' = "render"
    /\ UNCHANGED <<theme, sidebarOpen, language, notifications,
                   rbacVars, mwVars, authVars>>

\* page refresh: UIProvider is constructed again from localStorage, in a new
\* document
UIRefresh(dark) ==
    /\ uiBatch.mounted
    /\ ~uiBatch.pending
    /\ theme' = UIProviderInit(uiStore).theme
    /\ sidebarOpen' = UIProviderInit(uiStore).sidebarOpen
    /\ language' = UIProviderInit(uiStore).language
    /\ notifications' = UIProviderInit(uiStore).notifications
    /\ rootDark' = dark
    /\ uiBatch' = [NoBatch(theme') EXCEPT !.mounted = FALSE]
    /\ uiOp' = "refresh"
    /\ UNCHANGED <<uiStore, rbacVars, mwVars, authVars>>

-----------------------------------------------------------------------------
(* Specifications *)

InitRbac ==
    /\ rbacCall \in HelperCalls
    /\ rbacResult = NotReturned
    /\ rbacTest = TestStart

InitMiddleware ==
    /\ req \in Requests
    /\ res = Pending

InitAuth ==
    /\ \E stored \in InitialAuthStores :
          /\ user = AuthProviderInit(stored).user
          /\ authStore = AuthProviderInit(stored).store
    /\ renderedUser = user
    /\ clock = 1
    /\ authOp = "init"

InitUI ==
    /\ \E stored \in InitialUIStores :
          /\ uiStore = stored
          /\ theme = UIProviderInit(stored).theme
          /\ sidebarOpen = UIProviderInit(stored).sidebarOpen
          /\ language = UIProviderInit(stored).language
          /\ notifications = UIProviderInit(stored).notifications
    /\ rootDark \in BOOLEAN
    /\ uiBatch = [NoBatch(theme) EXCEPT !.mounted = FALSE]
    /\ uiOp = "init"

\* each specification starts the other parts in a fixed state and never moves them
IdleRbac ==
    /\ rbacCall = NoCall
    /\ rbacResult = NotReturned
    /\ rbacTest = TestStart

IdleMiddleware ==
    /\ req = [pathname |-> "/", headers |-> NoHeaders, cookie |-> Absent]
    /\ res = NextResponseNext(NoHeaders)

IdleAuth ==
    /\ user = NoUser
    /\ renderedUser = NoUser
    /\ authStore = Absent
    /\ clock = 1
    /\ authOp = "init"

IdleUI ==
    /\ uiStore = EmptyUIStore
    /\ theme = "light"
    /\ sidebarOpen = FALSE
    /\ language = "en"
    /\ notifications = TRUE
    /\ rootDark = FALSE
    /\ uiBatch = [NoBatch("light") EXCEPT !.mounted = FALSE]
    /\ uiOp = "init"

NextRbac ==
    \/ CallHasPermission
    \/ CallHasAnyPermission
    \/ CallHasAllPermissions
    \/ CallGetPermissions
    \/ CallHasHigherOrEqualRole

NextMiddleware == RunMiddleware

Next ==
    \/ \E username \in Usernames, email \in Emails, roleArg \in LoginRoles,
          now \in 1..MaxClock : login(username, email, roleArg, now)
    \/ logout
    \/ \E userData \in UserUpdates : updateUser(userData)
    \/ AuthRender
    \/ AuthRefresh

NextUI ==
    \/ UIMountEffect
    \/ toggleTheme
    \/ \E newTheme \in Theme : setTheme(newTheme)
    \/ toggleSidebar
    \/ \E open \in BOOLEAN : setSidebarOpen(open)
    \/ \E lang \in Language : setLanguageHandler(lang)
    \/ toggleNotifications
    \/ UIRender
    \/ \E dark \in BOOLEAN : UIRefresh(dark)

Init == IdleRbac /\ IdleMiddleware /\ InitAuth /\ IdleUI

Spec == Init /\ [][Next]_vars

InitSpecRbac == InitRbac /\ IdleMiddleware /\ IdleAuth /\ IdleUI

SpecRbac == InitSpecRbac /\ [][NextRbac]_vars

NextRbacTest ==
    \/ TestCount
    \/ TestCheck

InitSpecRbacTest == IdleRbac /\ IdleMiddleware /\ IdleAuth /\ IdleUI

SpecRbacTest == InitSpecRbacTest /\ [][NextRbacTest]_vars

\* AuthProvider and UIProvider mounted together, as in the root layout; the
\* callbacks of both are called in any order
NextApp ==
    \/ \E roleArg \in {Absent, Some("ADMIN")} :
          login("alice", "alice@example.com", roleArg, clock)
    \/ logout
    \/ updateUser(<<<<"name", "carol">>>>)
    \/ AuthRender
    \/ UIMountEffect
    \/ toggleTheme
    \/ \E newTheme \in Theme : setTheme(newTheme)
    \/ toggleSidebar
    \/ \E open \in BOOLEAN : setSidebarOpen(open)
    \/ \E lang \in {"en", "es"} : setLanguageHandler(lang)
    \/ toggleNotifications
    \/ UIRender

InitSpecApp == IdleRbac /\ IdleMiddleware /\ InitAuth /\ IdleUI

SpecApp == InitSpecApp /\ [][NextApp]_vars

InitSpecMiddleware == IdleRbac /\ InitMiddleware /\ IdleAuth /\ IdleUI

SpecMiddleware == InitSpecMiddleware /\ [][NextMiddleware]_vars

InitSpecUI == IdleRbac /\ IdleMiddleware /\ IdleAuth /\ InitUI

SpecUI == InitSpecUI /\ [][NextUI]_vars

-----------------------------------------------------------------------------
(* Properties of the middleware (SpecMiddleware) *)

Answered == res.kind # "pending"

IsPageRoute(pathname) == StartsWith(pathname, "/dashboard") \/ StartsWith(pathname, "/users")

IsAdminApi(pathname) == StartsWith(pathname, "/api/admin")

IsApiRoute(pathname) == IsAdminApi(pathname) \/ StartsWith(pathname, "/api/users")

\* the token was signed with JWT_SECRET and is not expired
ValidToken(t) ==
    /\ t \in DOMAIN IssuedTokens
    /\ IssuedTokens[t].secret = JWT_SECRET
    /\ ~IssuedTokens[t].expired

\* the Authorization header is "<scheme> <t>"
Carries(r, t) ==
    \E scheme \in {"Bearer", "Token"} :
        r.headers["authorization"] = Some(scheme \o " " \o t)

\* the role claim of t, upper-cased, is ADMIN
HasAdminRole(t) ==
    /\ IssuedTokens[t].payload.role # Absent
    /\ ToUpperCase(IssuedTokens[t].payload.role[1]) = "ADMIN"

\* C1: a request to a /dashboard or /users page goes through exactly when its
\* `token` cookie verifies under JWT_SECRET, whatever role the token names;
\* without a cookie, or with an invalid or expired one, it is redirected to /login.
C1_PageRouteGate ==
    (Answered /\ IsPageRoute(req.pathname)) =>
        LET verifies == req.cookie # Absent /\ ValidToken(req.cookie[1])
        IN  /\ (res.kind = "next") <=> verifies
            /\ ~verifies => (res.kind = "redirect" /\ res.location = "/login")

C1_Witness ==
    /\ Answered
    /\ req.pathname = "/users/1"
    /\ req.cookie = Some("jwtGuest")
    /\ req.headers["authorization"] = Absent
    /\ res.kind = "next"

\* C2: a request to /api/admin... is forwarded only if the Authorization header
\* carries a token that verifies and whose upper-cased role is ADMIN; a valid
\* token with another role, or none, gets 403 'Access denied' and is not forwarded.
C2_AdminApiGate ==
    (Answered /\ IsAdminApi(req.pathname)) =>
        /\ (res.kind = "next") =>
              \E t \in DOMAIN IssuedTokens :
                  Carries(req, t) /\ ValidToken(t) /\ HasAdminRole(t)
        /\ \A t \in DOMAIN IssuedTokens :
              (Carries(req, t) /\ ValidToken(t) /\ ~HasAdminRole(t)) =>
                  /\ res.kind = "json"
                  /\ res.status = 403
                  /\ res.message = "Access denied"
                  /\ res.forwarded = Absent

C2_Witness ==
    /\ Answered
    /\ req.pathname = "/api/admin/stats"
    /\ req.headers["authorization"] = Some("Bearer jwtCustomer")
    /\ res.status = 403
    /\ res.message = "Access denied"

\* the token the API branch reads: the second space-separated word of the header
NoTokenInHeader(r) ==
    \/ r.headers["authorization"] = Absent
    \/ Len(Split(r.headers["authorization"][1])) < 2
    \/ Split(r.headers["authorization"][1])[2] = ""

\* C5: on /api/admin and /api/users, a request without a token in the
\* Authorization header gets 401 'Token missing', one whose token fails
\* verification gets 403 'Invalid or expired token'; neither is forwarded and
\* no x-user-* header is set.
C5_ApiRejections ==
    (Answered /\ IsApiRoute(req.pathname)) =>
        /\ NoTokenInHeader(req) =>
              /\ res.kind = "json"
              /\ res.status = 401
              /\ res.message = "Token missing"
              /\ res.forwarded = Absent
        /\ (~NoTokenInHeader(req)
              /\ ~ValidToken(Split(req.headers["authorization"][1])[2])) =>
              /\ res.kind = "json"
              /\ res.status = 403
              /\ res.message = "Invalid or expired token"
              /\ res.forwarded = Absent

C5_Witness ==
    /\ Answered
    /\ req.pathname = "/api/users/1"
    /\ req.headers["authorization"] = Some("Bearer jwtExpired")
    /\ req.headers["x-user-role"] = Some("ADMIN")
    /\ res.status = 403
    /\ res.message = "Invalid or expired token"

\* C18: page routes read the token only from the `token` cookie and API
\* routes only from the Authorization header: an API request with a valid
\* token cookie but no Authorization header gets 401, and a page request with a
\* valid Authorization header but no token cookie is redirected to /login.
C18_CookieForPagesHeaderForApi ==
    Answered =>
        /\ (/\ IsApiRoute(req.pathname)
            /\ req.cookie # Absent
            /\ ValidToken(req.cookie[1])
            /\ req.headers["authorization"] = Absent) =>
              /\ res.kind = "json"
              /\ res.status = 401
              /\ res.forwarded = Absent
        /\ (/\ IsPageRoute(req.pathname)
            /\ req.cookie = Absent
            /\ \E t \in DOMAIN IssuedTokens : ValidToken(t) /\ Carries(req, t)) =>
              /\ res.kind = "redirect"
              /\ res.location = "/login"
              /\ res.forwarded = Absent

C18_Witness ==
    /\ Answered
    /\ req.pathname = "/dashboard"
    /\ req.cookie = Absent
    /\ req.headers["authorization"] = Some("Bearer jwtAdmin")
    /\ res.kind = "redirect"
    /\ res.location = "/login"

\* the request r as sent with the x-user-* headers x instead of its own
WithClientXUser(r, x) ==
    [r EXCEPT !.headers = [h \in HeaderNames |->
                              IF h \in XUserHeaders THEN x[h] ELSE r.headers[h]]]

\* the value a header holds once set: surrounding whitespace is not part of it
ClaimAsHeader(claim) == Some(NormalizeHeaderValue(claim))

\* C19: when the middleware forwards an API request, x-user-id, x-user-email
\* and x-user-role are determined only by the verified token, by its id, its
\* email and its upper-cased role: the same request sent with other x-user-*
\* headers is forwarded with the same three values.
C19_ForwardedIdentityFromTokenOnly ==
    (Answered /\ IsApiRoute(req.pathname) /\ res.kind = "next") =>
        LET token   == Split(req.headers["authorization"][1])[2]
            payload == IssuedTokens[token].payload
            seen    == res.forwarded[1]
        IN  /\ seen["x-user-id"] =
                  ClaimAsHeader(IF payload.id = Absent THEN "" ELSE ToString(payload.id[1]))
            /\ seen["x-user-email"] =
                  ClaimAsHeader(IF payload.email = Absent THEN "" ELSE payload.email[1])
            /\ seen["x-user-role"] =
                  ClaimAsHeader(ToUpperCase(IF payload.role = Absent THEN ""
                                            ELSE payload.role[1]))
            /\ \A x \in ClientXUser :
                  LET other == middleware(WithClientXUser(req, x))
                  IN  /\ other.kind = "next"
                      /\ \A h \in XUserHeaders : other.forwarded[1][h] = seen[h]

C19_Witness ==
    /\ Answered
    /\ req.pathname = "/api/users"
    /\ req.headers["authorization"] = Some("Bearer jwtCustomer")
    /\ req.headers["x-user-role"] = Some("ADMIN")
    /\ req.headers["x-user-id"] = Some("1")
    /\ res.kind = "next"
    /\ res.forwarded[1]["x-user-role"] = Some("CUSTOMER")
    /\ res.forwarded[1]["x-user-id"] = Some("3")

\* C20: for pathnames starting with /api/users the decision depends only on
\* whether the Authorization token verifies: every valid token is forwarded
\* whatever its role claim.
C20_UsersApiForwardsEveryValidToken ==
    (Answered /\ StartsWith(req.pathname, "/api/users") /\ ~NoTokenInHeader(req)) =>
        ((res.kind = "next") <=> ValidToken(Split(req.headers["authorization"][1])[2]))

-----------------------------------------------------------------------------
(* Properties of the roles.ts helpers (SpecRbac) *)

\* the "Complete Permissions Table" of RBAC_DOCUMENTATION.md, without the
\* "(own)" qualifiers
DocumentedMatrix ==
    [ADMIN |->
        [users           |-> {"create", "read", "update", "delete", "manage"},
         restaurants     |-> {"create", "read", "update", "delete", "manage"},
         menuItems       |-> {"create", "read", "update", "delete", "manage"},
         orders          |-> {"create", "read", "update", "delete", "manage"},
         reviews         |-> {"create", "read", "update", "delete", "manage"},
         addresses       |-> {"create", "read", "update", "delete", "manage"},
         deliveryPersons |-> {"create", "read", "update", "delete", "manage"},
         transactions    |-> {"create", "read", "update", "delete", "manage"}],
     RESTAURANT_OWNER |->
        [users           |-> {"read"},
         restaurants     |-> {"read", "update"},
         menuItems       |-> {"create", "read", "update", "delete"},
         orders          |-> {"read", "update"},
         reviews         |-> {"read"},
         addresses       |-> {"read"},
         deliveryPersons |-> {"read", "update"},
         transactions    |-> {"read"}],
     CUSTOMER |->
        [users           |-> {"read", "update"},
         restaurants     |-> {"read"},
         menuItems       |-> {"read"},
         orders          |-> {"create", "read", "update"},
         reviews         |-> {"create", "read", "update", "delete"},
         addresses       |-> {"create", "read", "update", "delete"},
         deliveryPersons |-> {"read"},
         transactions    |-> {"read"}]]

TypedCall ==
    /\ rbacCall.role \in UserRole
    /\ rbacCall.resource \in Resource

\* C3: for the three roles, the eight resources and the five permissions,
\* hasPermission is true exactly when the documented matrix lists the
\* permission, or 'manage', for that role and resource.
C3_MatchesDocumentedMatrix ==
    (Returned /\ rbacCall.fn = "hasPermission" /\ TypedCall
        /\ rbacCall.permission \in Permission) =>
        LET listed == DocumentedMatrix[rbacCall.role][rbacCall.resource]
        IN  rbacResult = IF rbacCall.permission \in listed \/ "manage" \in listed
                           THEN ReturnsTrue ELSE ReturnsFalse

C3_Witness ==
    /\ Returned
    /\ rbacCall.fn = "hasPermission"
    /\ rbacCall.role = "RESTAURANT_OWNER"
    /\ rbacCall.resource = "menuItems"
    /\ rbacCall.permission = "manage"
    /\ rbacResult = ReturnsFalse

\* the role is no key of the matrix, or the resource no key of the role's entry
UnknownKey ==
    \/ rbacCall.role \notin DOMAIN rolePermissionsTable
    \/ rbacCall.resource \notin DOMAIN rolePermissionsTable[rbacCall.role]

\* C4: deny by default: for a role or a resource that is no key of the matrix,
\* hasPermission returns false without raising an error, hasAnyPermission
\* returns false for every list and getPermissions returns the empty list.
C4_DenyByDefault ==
    (Returned /\ UnknownKey) =>
        /\ rbacCall.fn \in {"hasPermission", "hasAnyPermission"} =>
              (~rbacResult.threw /\ rbacResult = ReturnsFalse)
        /\ rbacCall.fn = "getPermissions" =>
              (~rbacResult.threw /\ rbacResult.value.t = "array"
                 /\ rbacResult.value.items = <<>>)

\* C9: ADMIN is granted all five permissions on each of the eight resources,
\* and on each resource the permissions of RESTAURANT_OWNER and of CUSTOMER
\* are among ADMIN's.
C9_AdminHoldsEverything ==
    (Returned /\ TypedCall) =>
        /\ (rbacCall.fn = "getPermissions" /\ rbacCall.role = "ADMIN") =>
              /\ rbacResult.value.t = "array"
              /\ \A p \in Permission : Contains(rbacResult.value.items, p)
        /\ (rbacCall.fn = "hasPermission" /\ rbacCall.role = "ADMIN"
              /\ rbacCall.permission \in Permission) =>
              rbacResult = ReturnsTrue
        /\ (rbacCall.fn = "getPermissions" /\ rbacCall.role # "ADMIN") =>
              /\ rbacResult.value.t = "array"
              /\ \A i \in 1..Len(rbacResult.value.items) :
                    Contains(getPermissions("ADMIN", rbacCall.resource).value.items,
                             rbacResult.value.items[i])

C9_Witness ==
    /\ Returned
    /\ rbacCall.fn = "getPermissions"
    /\ rbacCall.role = "ADMIN"
    /\ rbacCall.resource = "transactions"
    /\ Len(rbacResult.value.items) = 5

\* C10: where the permission list of a role and resource contains 'manage',
\* hasPermission returns true for every permission asked, listed or not.
C10_ManageIncludesAll ==
    (Returned /\ rbacCall.fn = "hasPermission" /\ TypedCall
        /\ Contains(rolePermissionsTable[rbacCall.role][rbacCall.resource], "manage")) =>
        rbacResult = ReturnsTrue

C10_Witness ==
    /\ Returned
    /\ rbacCall.fn = "hasPermission"
    /\ TypedCall
    /\ Contains(rolePermissionsTable[rbacCall.role][rbacCall.resource], "manage")
    /\ ~Contains(rolePermissionsTable[rbacCall.role][rbacCall.resource], rbacCall.permission)
    /\ rbacResult = ReturnsTrue

\* the call returned true
IsTrue(outcome) ==
    /\ ~outcome.threw
    /\ outcome.value.t = "boolean"
    /\ outcome.value.b

\* the call returned false
IsFalse(outcome) ==
    /\ ~outcome.threw
    /\ outcome.value.t = "boolean"
    /\ ~outcome.value.b

\* C11: hasAnyPermission is true exactly when hasPermission holds for some p
\* of the list, hasAllPermissions exactly when it holds for every p; so for a
\* non-empty list hasAllPermissions implies hasAnyPermission, and for the
\* empty list hasAnyPermission is false and hasAllPermissions is true.
C11_AnyIsSomeAllIsEvery ==
    Returned =>
        LET ps      == rbacCall.permissions
            holds(p) == IsTrue(hasPermission(rbacCall.role, rbacCall.resource, p))
        IN  /\ rbacCall.fn = "hasAnyPermission" =>
                  /\ IsTrue(rbacResult) <=> \E i \in 1..Len(ps) : holds(ps[i])
                  /\ TypedCall => (IsTrue(rbacResult) \/ IsFalse(rbacResult))
                  /\ ps = <<>> => IsFalse(rbacResult)
            /\ rbacCall.fn = "hasAllPermissions" =>
                  /\ IsTrue(rbacResult) <=> \A i \in 1..Len(ps) : holds(ps[i])
                  /\ TypedCall => (IsTrue(rbacResult) \/ IsFalse(rbacResult))
                  /\ ps = <<>> => IsTrue(rbacResult)
                  /\ (ps # <<>> /\ IsTrue(rbacResult)) =>
                        IsTrue(hasAnyPermission(rbacCall.role, rbacCall.resource, ps))

C11_Witness ==
    /\ Returned
    /\ rbacCall.fn = "hasAllPermissions"
    /\ rbacCall.role = "CUSTOMER"
    /\ rbacCall.resource = "users"
    /\ rbacCall.permissions = <<"read", "delete">>
    /\ IsFalse(rbacResult)
    /\ IsTrue(hasAnyPermission("CUSTOMER", "users", <<"read", "delete">>))

-----------------------------------------------------------------------------
(* Properties of AuthProvider and usePermissions (Spec) *)

\* the permission lists the type Permission[] admits, up to MaxPermList long
TypedPermissionLists == UNION {[1..n -> Permission] : n \in 0..MaxPermList}

\* C6: in a render that sees a logged-in user with one of the three roles,
\* can / canAny / canAll give what hasPermission / hasAnyPermission /
\* hasAllPermissions give for that role; in a render without a user all three
\* return false.
C6_HookAgreesWithMatrix ==
    \A resource \in Resource :
        /\ (renderedUser.present /\ renderedUser.role \in UserRole) =>
              /\ \A p \in Permission :
                    can(renderedUser, p, resource)
                        = hasPermission(renderedUser.role, resource, p)
              /\ \A ps \in TypedPermissionLists :
                    /\ canAny(renderedUser, ps, resource)
                          = hasAnyPermission(renderedUser.role, resource, ps)
                    /\ canAll(renderedUser, ps, resource)
                          = hasAllPermissions(renderedUser.role, resource, ps)
        /\ ~renderedUser.present =>
              /\ \A p \in Permission : can(renderedUser, p, resource) = ReturnsFalse
              /\ \A ps \in TypedPermissionLists :
                    /\ canAny(renderedUser, ps, resource) = ReturnsFalse
                    /\ canAll(renderedUser, ps, resource) = ReturnsFalse

C6_Witness ==
    /\ authOp = "render"
    /\ renderedUser.present
    /\ renderedUser.role = "CUSTOMER"
    /\ can(renderedUser, "create", "orders") = ReturnsTrue
    /\ can(renderedUser, "delete", "users") = ReturnsFalse
    /\ canAll(renderedUser, <<"read", "update">>, "users") = ReturnsTrue

\* C7: a page refresh, after any sequence of login, logout and updateUser,
\* gives back the user the provider held: the same id, name, email and role,
\* or null.
C7_UserSurvivesRefresh == [][AuthRefresh => user' = user]_vars

C7_Witness ==
    /\ authOp = "refresh"
    /\ user.present
    /\ user.name = "carol"
    /\ user.id = "2"

\* C13: login(username, email, role) from any prior state leaves a non-null
\* user with that name and email and that role ('user' when the role is
\* omitted), nothing of a previous user kept, and isAuthenticated true; the
\* render that follows shows that user.
C13_LoginAuthenticates ==
    /\ [][\A username \in Usernames, email \in Emails, roleArg \in LoginRoles,
             now \in 1..MaxClock :
             login(username, email, roleArg, now) =>
                 /\ user' = MakeUser(ToString(now), username, email,
                                     IF roleArg = Absent THEN "user" ELSE roleArg[1])
                 /\ isAuthenticated(user')
                 /\ getUserName(user') = username]_vars
    /\ [][(AuthRender /\ authOp = "login") =>
             (renderedUser' = user /\ isAuthenticated(renderedUser'))]_vars

C13_Witness ==
    /\ authOp = "login"
    /\ renderedUser.present
    /\ renderedUser.role = "ADMIN"
    /\ renderedUser.name = "bob"
    /\ user = MakeUser("2", "alice", "alice@example.com", "user")

\* C14: logout from any prior state leaves user null, isAuthenticated false,
\* getUserName() 'Guest', getUserEmail() '' and no authUser entry; a second
\* logout changes nothing.
C14_LogoutLogsOut ==
    /\ [][logout =>
             /\ user' = NoUser
             /\ ~isAuthenticated(user')
             /\ getUserName(user') = "Guest"
             /\ getUserEmail(user') = ""
             /\ authStore' = Absent]_vars
    /\ [][(logout /\ authOp = "logout") =>
             UNCHANGED <<user, renderedUser, authStore, clock>>]_vars

C14_Witness ==
    /\ authOp = "logout"
    /\ renderedUser.present
    /\ renderedUser.name = "carol"
    /\ user = NoUser
    /\ authStore = Absent

\* C16: in every state reached by login, logout and updateUser calls the
\* authUser entry mirrors the user state: it is absent exactly when user is
\* null, and otherwise it is the JSON serialisation of the current user.
C16_StoreMirrorsUser ==
    /\ authStore = Absent <=> ~user.present
    /\ user.present => authStore = Some(JSONstringify(user))

C16_Witness ==
    /\ authOp = "updateUser"
    /\ user.present
    /\ user.name = "carol"
    /\ renderedUser # user
    /\ authStore = Some(JSONstringify(user))

\* C17: updateUser has no effect while logged out: a call made while user is
\* null, also one made in the render of the logout, where updateUser still
\* closes over the previous user, leaves user null and writes no authUser entry.
C17_UpdateUserInertWhenLoggedOut ==
    [][(authOp' = "updateUser" /\ ~user.present /\ authStore = Absent) =>
          (~user'.present /\ authStore' = Absent)]_vars

\* C21: the two admin checks agree: for every logged-in user the isAdmin of
\* useAuth is true exactly when the isAdmin of usePermissions is true.
C21_AdminChecksAgree ==
    renderedUser.present =>
        (useAuthIsAdmin(renderedUser) <=> usePermissionsIsAdmin(renderedUser))

\* the call returned true or false
IsBoolean(outcome) ==
    /\ ~outcome.threw
    /\ outcome.value.t = "boolean"

\* C22: can, canAny, canAll, hasRole and hasRoleLevel return a boolean and
\* never raise an error, for every user reachable through login and
\* updateUser, also when the role is none of the three roles of the matrix.
C22_PredicatesReturnBooleans ==
    /\ \A role \in UserRole :
          /\ IsBoolean(hasRole(renderedUser, role))
          /\ IsBoolean(hasRoleLevel(renderedUser, role))
    /\ \A resource \in Resource :
          /\ \A p \in Permission : IsBoolean(can(renderedUser, p, resource))
          /\ \A ps \in TypedPermissionLists :
                /\ IsBoolean(canAny(renderedUser, ps, resource))
                /\ IsBoolean(canAll(renderedUser, ps, resource))

-----------------------------------------------------------------------------
(* Properties of UIProvider (SpecUI) *)

\* C8: a page refresh, after any sequence of toggleTheme, setTheme,
\* setLanguage and toggleNotifications, gives back the theme, language and
\* notifications the provider held; with nothing stored they are 'light',
\* 'en' and true.
C8_PreferencesSurviveRefresh ==
    /\ [][(\E dark \in BOOLEAN : UIRefresh(dark)) =>
            /\ theme' = theme
            /\ language' = language
            /\ notifications' = notifications]_vars
    /\ []((~uiBatch.mounted /\ uiStore = EmptyUIStore) =>
            (theme = "light" /\ language = "en" /\ notifications = TRUE))

\* C24: once the mount effect has run and every toggleTheme or setTheme call
\* has been rendered, the document root carries the class 'dark' exactly when
\* theme is 'dark', and the stored theme equals the theme state.
C24_RootAndStoreFollowTheme ==
    (uiBatch.mounted /\ ~uiBatch.pending) =>
        /\ rootDark = (theme = "dark")
        /\ uiStore.theme # Absent => uiStore.theme = Some(theme)

-----------------------------------------------------------------------------
(* Properties of the two providers together (SpecApp) *)

\* the callback named op has just run: each callback leaves its name in the
\* operation record of its provider
AuthStep(op) == authOp' = op /\ authVars' # authVars

UIStep(op) == uiOp' = op /\ uiVars' # uiVars

UICallbacks == {"toggleTheme", "setTheme", "toggleSidebar", "setSidebarOpen",
                "setLanguage", "toggleNotifications"}

\* C15: login, logout and updateUser leave theme, sidebarOpen, language,
\* notifications and their localStorage keys unchanged; the six UI callbacks
\* leave user and the authUser key unchanged; and each UI callback changes
\* only its own field and key.
C15_ProvidersDoNotInterfere ==
    /\ [][(\E op \in {"login", "logout", "updateUser"} : AuthStep(op)) =>
             UNCHANGED <<theme, sidebarOpen, language, notifications, uiStore>>]_vars
    /\ [][(\E op \in UICallbacks : UIStep(op)) =>
             UNCHANGED <<user, authStore>>]_vars
    /\ [][(UIStep("toggleTheme") \/ UIStep("setTheme")) =>
             /\ UNCHANGED <<sidebarOpen, language, notifications>>
             /\ uiStore'.language = uiStore.language
             /\ uiStore'.notifications = uiStore.notifications]_vars
    /\ [][(UIStep("toggleSidebar") \/ UIStep("setSidebarOpen")) =>
             UNCHANGED <<theme, language, notifications, uiStore>>]_vars
    /\ [][UIStep("setLanguage") =>
             /\ UNCHANGED <<theme, sidebarOpen, notifications>>
             /\ uiStore'.theme = uiStore.theme
             /\ uiStore'.notifications = uiStore.notifications]_vars
    /\ [][UIStep("toggleNotifications") =>
             /\ UNCHANGED <<theme, sidebarOpen, language>>
             /\ uiStore'.theme = uiStore.theme
             /\ uiStore'.language = uiStore.language]_vars

C15_Witness ==
    /\ authOp = "logout"
    /\ user = NoUser
    /\ uiOp = "toggleNotifications"
    /\ theme = "dark"
    /\ sidebarOpen
    /\ uiStore.theme = Some("dark")
    /\ uiStore.language = Some("es")
    /\ uiStore.notifications = Some("false")

====
